---- MODULE Spec2Model ----
(***************************************************************************)
(* Model of the asset/remediation-ticket reconciliation loop of            *)
(* jira-assets-tracker: app/updater.py (the reconciler, the lifecycle      *)
(* decider, the creator and the polling loop), app/helpres.py (the ticket  *)
(* cache and the link filter), app/jira_board.py and app/jira_assets.py    *)
(* (the two remote clients), app/config.py (the constants).                *)
(*                                                                         *)
(* The remote side (the tickets, the asset/ticket links, the comments) is  *)
(* part of the state; every remote call may succeed or fail, and its       *)
(* outcome is drawn with \E in the action of the function that issues it.  *)
(***************************************************************************)
EXTENDS Integers, Sequences, FiniteSets, TLC

(***************************************************************************)
(* app/config.py                                                           *)
(***************************************************************************)
ONE_DAY_SECONDS == 86400
UPDATE_WARNING_DAYS == 5
UPDATE_WARNING_SECONDS == UPDATE_WARNING_DAYS * ONE_DAY_SECONDS

(***************************************************************************)
(* Bounds of the model.                                                    *)
(***************************************************************************)
\* iterations of the polling loop that are explored
MaxPass == 2
\* remote calls that fail (or return nothing) in one run
MaxFailures == 1

(***************************************************************************)
(* Python values.  None is the value of a missing attribute, NoDate the    *)
(* result of a failed strptime.                                            *)
(***************************************************************************)
None == "<None>"
NoDate == -1

\* The strings an 'Update' attribute takes in the model, and
\* datetime.strptime(s, "%Y-%m-%d") of each in seconds (midnight of the day,
\* counted from 2023-12-31 00:00:00); a string that does not match the format
\* raises, which the callers turn into "no date".
Strptime(s) ==
    CASE s = "2024-01-01" -> 1 * ONE_DAY_SECONDS
      [] s = "2024-01-06" -> 6 * ONE_DAY_SECONDS
      [] OTHER -> NoDate

\* The instants datetime.now() returns in the model: one second before
\* 2024-01-01 00:00:00, that midnight (five days before 2024-01-06), and
\* midnight of 2024-01-06 and one second after it.
ClockValues ==
    { ONE_DAY_SECONDS - 1, ONE_DAY_SECONDS,
      6 * ONE_DAY_SECONDS, 6 * ONE_DAY_SECONDS + 1 }

\* The instant the process starts at.
StartTime == ONE_DAY_SECONDS - 1

\* datetime.now(): the clock never goes back.
ClockReads(last) == { t \in ClockValues : t >= last }

(***************************************************************************)
(* app/config.py: the templates.  str.format is modelled by what it        *)
(* builds: the fixed text followed by the argument.                        *)
(***************************************************************************)
TASK_SUMMARY_TEMPLATE(asset_name) == <<"Update ", asset_name>>
TASK_DESCRIPTION_TEMPLATE(asset_name) == <<"Please update the asset ", asset_name>>
COMMENT_REMINDER(update_date) == <<"Reminder: The asset update is overdue", update_date>>
COMMENT_REQUEST_UPDATE == <<"The Update date is outdated", "">>
NoText == <<"", "">>

\* config.py:32-37: app/user_mapping.json is not part of the repository, so
\* the mapping is the empty one of the except branch.
ASSIGNEE_MAPPING == [n \in {} |-> 0]

(***************************************************************************)
(* The remote data the model draws from.                                   *)
(***************************************************************************)
StatusNames == {"To Do", "In Progress", "Done", "Blocked"}
LabelSets == {{}, {"AssetUpdate"}}
TicketStates == [status : StatusNames, labels : LabelSets]

\* updater.py:45-63: app/attributes.json, the attribute id -> name table.
attribute_map == [i \in {"101", "102", "103"} |->
    CASE i = "101" -> "Name"
      [] i = "102" -> "Update"
      [] OTHER -> "Primary Responsible Employee"]

Attr(i, vals) == [objectTypeAttributeId |-> i, objectAttributeValues |-> vals]

\* The raw attribute lists of the assets of the model: complete, without a
\* name, with a name attribute that holds no value, with an 'Update' that is
\* absent, empty or not a date, and with an attribute the table does not know.
AttributeLists ==
    { <<Attr("101", <<"srv">>), Attr("102", <<"2024-01-06">>)>>,
      <<Attr("999", <<"x">>), Attr("101", <<"db">>), Attr("102", <<"2024-01-01">>)>>,
      <<Attr("102", <<"2024-01-06">>)>>,
      <<Attr("101", <<>>), Attr("102", <<"2024-01-01">>)>>,
      <<Attr("101", <<"srv">>)>>,
      <<Attr("101", <<"srv">>), Attr("102", <<>>)>>,
      <<Attr("101", <<"srv">>), Attr("102", <<"soon">>)>> }

AssetIds == {"A1", "A2"}

(***************************************************************************)
(* app/jira_assets.py                                                      *)
(***************************************************************************)
\* JiraAssets.extract_attribute_values: name -> values, for the attributes
\* the table knows; a later record of the same name replaces an earlier one.
ExtractAttributeValues(object_data) ==
    LET attrs == object_data.attributes
        known == { i \in 1..Len(attrs) :
                     attrs[i].objectTypeAttributeId \in DOMAIN attribute_map }
        names == { attribute_map[attrs[i].objectTypeAttributeId] : i \in known }
        last(n) == CHOOSE i \in known :
                     /\ attribute_map[attrs[i].objectTypeAttributeId] = n
                     /\ \A k \in known :
                          attribute_map[attrs[k].objectTypeAttributeId] = n => k <= i
    IN  [n \in names |-> attrs[last(n)].objectAttributeValues]

(***************************************************************************)
(* app/helpres.py: the pure helpers                                        *)
(***************************************************************************)
IndexError == "<IndexError>"

\* attributes.get(name, [None])[0]
FirstValue(attributes, name) ==
    IF name \notin DOMAIN attributes THEN None
    ELSE IF attributes[name] = <<>> THEN IndexError
    ELSE attributes[name][1]

\* Python truth of a string or None
Truthy(v) == v # None /\ v # ""

\* extract_update_date: the parsed date, NoDate for None of the function
ExtractUpdateDate(attributes) ==
    LET update_date_str == FirstValue(attributes, "Update")
    IN  IF Truthy(update_date_str) THEN Strptime(update_date_str) ELSE NoDate

ExtractAssigneeName(attributes) == FirstValue(attributes, "Primary Responsible Employee")

\* What get_task returned: a ticket, None (an empty body) or the error dict
\* of JiraBoard._request.  pass is the iteration in which it was fetched.
TaskOf(t, p) == [kind |-> "task", status |-> t.status, labels |-> t.labels, pass |-> p]
NoTask(p) == [kind |-> "none", status |-> "", labels |-> {}, pass |-> p]
ErrorDict(p) == [kind |-> "error", status |-> "", labels |-> {}, pass |-> p]

\* `if not task`
TaskTruthy(task) == task.kind # "none"
\* task.get("fields", {}).get("status", {}).get("name", "")
StatusName(task) == IF task.kind = "task" THEN task.status ELSE ""

\* is_task_for_update that does not look at the labels.
IsTaskForUpdateAnyTask(task) == TaskTruthy(task)

\* is_task_for_update
IsTaskForUpdate(task) ==
    IF ~TaskTruthy(task) THEN FALSE
    ELSE "AssetUpdate" \in (IF task.kind = "task" THEN task.labels ELSE {})

(***************************************************************************)
(* app/helpres.py: the ticket cache and the link filter                    *)
(***************************************************************************)
EmptyMap == [k \in {} |-> 0]

\* clear_task_cache that rebinds a name the lookups do not read: the cache
\* keeps its entries.
ClearTaskCacheKept(cache) == cache

\* clear_task_cache: task_cache = {}
ClearTaskCache(cache) == EmptyMap

\* get_task_cached that tests the cached value instead of the key: a cached
\* None is fetched again.
GetTaskCachedIfFalsy(cache, issue_key, resp) ==
    LET miss == issue_key \notin DOMAIN cache \/ cache[issue_key].kind = "none"
        after == IF miss THEN (issue_key :> resp[issue_key]) @@ cache ELSE cache
    IN  [cache |-> after, task |-> after[issue_key],
         fetched |-> IF miss THEN <<issue_key>> ELSE <<>>]

\* get_task_cached(issue_key, jira_board).  resp[issue_key] is what
\* jira_board.get_task(issue_key) returns if it is called now.  The result:
\* the cache afterwards, the task returned, and the keys fetched remotely.
GetTaskCached(cache, issue_key, resp) ==
    LET miss == issue_key \notin DOMAIN cache
        after == IF miss THEN (issue_key :> resp[issue_key]) @@ cache ELSE cache
    IN  [cache |-> after, task |-> after[issue_key],
         fetched |-> IF miss THEN <<issue_key>> ELSE <<>>]

\* filter_update_issues(linked_issues, jira_board): the loop, from link i on.
RECURSIVE FilterFrom(_, _, _, _, _, _)
FilterFrom(linked_issues, i, cache, resp, filtered, fetched) ==
    IF i > Len(linked_issues)
    THEN [filtered |-> filtered, cache |-> cache, fetched |-> fetched]
    ELSE LET got == GetTaskCached(cache, linked_issues[i], resp)
         IN  FilterFrom(linked_issues, i + 1, got.cache, resp,
                        IF IsTaskForUpdate(got.task)
                        THEN Append(filtered, linked_issues[i]) ELSE filtered,
                        fetched \o got.fetched)

FilterUpdateIssues(linked_issues, cache, resp) ==
    FilterFrom(linked_issues, 1, cache, resp, <<>>, <<>>)

(***************************************************************************)
(* app/updater.py: the decisions                                           *)
(***************************************************************************)
\* Classify with the first comparison strict: a date due this very instant
\* is not yet overdue.
ClassifyStrict(update_date, now) ==
    LET time_diff == update_date - now
    IN  IF time_diff < 0 THEN "Overdue"
        ELSE IF time_diff <= UPDATE_WARNING_SECONDS THEN "DueSoon"
        ELSE "Current"

\* process_asset_update, lines 209-224: the urgency class of a due date
Classify(update_date, now) ==
    LET time_diff == update_date - now
    IN  IF time_diff <= 0 THEN "Overdue"
        ELSE IF time_diff <= UPDATE_WARNING_SECONDS THEN "DueSoon"
        ELSE "Current"

\* DeciderAction with the due date compared strictly: a ticket whose asset
\* is due this very instant is not yet reminded.
DeciderActionStrict(status, update_date, now) ==
    IF status # "Done"
    THEN IF update_date < now
         THEN IF status # "In Progress"
              THEN [comment |-> "reminder", transition |-> TRUE, branch |-> "overdue"]
              ELSE [comment |-> "none", transition |-> FALSE, branch |-> "in_progress"]
         ELSE [comment |-> "none", transition |-> FALSE, branch |-> "stuck"]
    ELSE IF update_date < now
         THEN [comment |-> "request", transition |-> FALSE, branch |-> "done_outdated"]
         ELSE [comment |-> "none", transition |-> FALSE, branch |-> "done_current"]

\* DeciderAction with the status compared without regard to case.
DeciderActionAnyCase(status, update_date, now) ==
    IF status \notin {"Done", "done", "DONE"}
    THEN IF update_date <= now
         THEN IF status \notin {"In Progress", "in progress", "IN PROGRESS"}
              THEN [comment |-> "reminder", transition |-> TRUE, branch |-> "overdue"]
              ELSE [comment |-> "none", transition |-> FALSE, branch |-> "in_progress"]
         ELSE [comment |-> "none", transition |-> FALSE, branch |-> "stuck"]
    ELSE IF update_date <= now
         THEN [comment |-> "request", transition |-> FALSE, branch |-> "done_outdated"]
         ELSE [comment |-> "none", transition |-> FALSE, branch |-> "done_current"]

\* process_linked_update_issue, lines 96-123: the comment to add ("reminder",
\* "request" or "none") and whether to ask for the 'In Progress' transition
DeciderAction(status, update_date, now) ==
    IF status # "Done"
    THEN IF update_date <= now
         THEN IF status # "In Progress"
              THEN [comment |-> "reminder", transition |-> TRUE, branch |-> "overdue"]
              ELSE [comment |-> "none", transition |-> FALSE, branch |-> "in_progress"]
         ELSE [comment |-> "none", transition |-> FALSE, branch |-> "stuck"]
    ELSE IF update_date <= now
         THEN [comment |-> "request", transition |-> FALSE, branch |-> "done_outdated"]
         ELSE [comment |-> "none", transition |-> FALSE, branch |-> "done_current"]

\* handle_future_asset, line 254
active_statuses == {"TO DO", "In Progress"}

\* handle_future_asset, lines 255-267: the loop over update_issues, from
\* issue i on; it stops at the first active one.  checked are the issues
\* whose task was looked up.
RECURSIVE FutureLoopFrom(_, _, _, _, _, _)
FutureLoopFrom(update_issues, i, cache, resp, checked, fetched) ==
    IF i > Len(update_issues)
    THEN [found |-> FALSE, cache |-> cache, checked |-> checked, fetched |-> fetched]
    ELSE LET got == GetTaskCached(cache, update_issues[i], resp)
             seen == Append(checked, update_issues[i])
         IN  IF TaskTruthy(got.task) /\ StatusName(got.task) \in active_statuses
             THEN [found |-> TRUE, cache |-> got.cache, checked |-> seen,
                   fetched |-> fetched \o got.fetched]
             ELSE FutureLoopFrom(update_issues, i + 1, got.cache, resp, seen,
                                 fetched \o got.fetched)

(***************************************************************************)
(* app/jira_board.py                                                       *)
(***************************************************************************)
NoFields == [project |-> "", summary |-> NoText, description |-> NoText,
             issuetype |-> "", duedate |-> None, labels |-> {},
             objectId |-> "", assignee |-> None]

\* create_task that looks for the labels under another keyword: none is set.
CreateTaskFieldsNoLabels(payload) ==
    [project |-> payload.project_key,
     summary |-> payload.summary,
     description |-> payload.description,
     issuetype |-> payload.issue_type,
     duedate |-> IF Truthy(payload.duedate) THEN payload.duedate ELSE None,
     labels |-> {},
     objectId |-> payload.objectId,
     assignee |-> payload.assignee_id]

\* JiraBoard.create_task, lines 57-74: the fields of the POST; a falsy
\* duedate, label list or assignee is left out.
CreateTaskFields(payload) ==
    [project |-> payload.project_key,
     summary |-> payload.summary,
     description |-> payload.description,
     issuetype |-> payload.issue_type,
     duedate |-> IF Truthy(payload.duedate) THEN payload.duedate ELSE None,
     labels |-> payload.task_labels,
     objectId |-> payload.objectId,
     assignee |-> payload.assignee_id]

\* TaskPayload without the marker label.
TaskPayloadUnlabelled(project_key, asset_id, asset_name, duedate, attributes) ==
    [project_key |-> project_key,
     summary |-> TASK_SUMMARY_TEMPLATE(asset_name),
     description |-> TASK_DESCRIPTION_TEMPLATE(asset_name),
     issue_type |-> "Task",
     duedate |-> duedate,
     objectId |-> asset_id,
     task_labels |-> {},
     assignee_id |-> None]

\* create_update_task, lines 163-184: the payload handed to create_task
TaskPayload(project_key, asset_id, asset_name, duedate, attributes) ==
    LET assignee_name == ExtractAssigneeName(attributes)
        assignee_id == IF Truthy(assignee_name) /\ assignee_name \in DOMAIN ASSIGNEE_MAPPING
                       THEN ASSIGNEE_MAPPING[assignee_name] ELSE None
    IN  [project_key |-> project_key,
         summary |-> TASK_SUMMARY_TEMPLATE(asset_name),
         description |-> TASK_DESCRIPTION_TEMPLATE(asset_name),
         issue_type |-> "Task",
         duedate |-> duedate,
         objectId |-> asset_id,
         task_labels |-> {"AssetUpdate"},
         assignee_id |-> assignee_id]

(***************************************************************************)
(* The state                                                               *)
(***************************************************************************)
VARIABLES
    issues,      \* remote: ticket key -> [status, labels]; the keys are 1..Len
    links,       \* remote: asset id -> the keys of the tickets linked to it
    assets,      \* remote: the objects the AQL query matches
    env,         \* JIRA_WORKSPACE_ID and JIRA_PROJECT_KEY of the environment
    clock,       \* the last value datetime.now() returned
    task_cache,  \* helpres.task_cache
    pc,          \* where run_every_10_minutes is
    pass,        \* the number of the iteration of its loop
    batch,       \* the assets of the iteration
    idx,         \* the asset process_assets_with_update is at
    cur,         \* the locals of process_asset_update and of its handler
    fetches,     \* ticket key -> get_task calls since the last cache reset
    classes,     \* the urgency classes of the assets of the iteration so far
    calls,       \* the calls made for the asset at idx (or the last one), oldest first
    failures,    \* remote calls that have failed: in this run, in this iteration
    history,     \* what a test harness records of the run, if it records
    workers      \* the processes that run create_update_task side by side, if any

vars == <<issues, links, assets, env, clock, task_cache, pc, pass,
          batch, idx, cur, fetches, classes, calls, failures, history, workers>>

remote == <<issues, links, assets, env>>

Asset(id, attributes) == [id |-> id, attributes |-> attributes]

CompleteAssets ==
    <<Asset("A1", <<Attr("101", <<"srv">>), Attr("102", <<"2024-01-06">>)>>),
      Asset("A2", <<Attr("999", <<"x">>), Attr("101", <<"db">>),
                    Attr("102", <<"2024-01-01">>)>>)>>

ConfiguredEnv == [workspace_id |-> "W1", project_key |-> "OPS"]
Environments ==
    { ConfiguredEnv,
      [workspace_id |-> None, project_key |-> "OPS"],
      [workspace_id |-> "W1", project_key |-> ""] }

Labelled(status) == [status |-> status, labels |-> {"AssetUpdate"}]
Unlabelled(status) == [status |-> status, labels |-> {}]

LinksOf(l1, l2) ==
    [a \in AssetIds \cup {""} |-> IF a = "A1" THEN l1 ELSE IF a = "A2" THEN l2 ELSE <<>>]

\* The remote worlds the model starts from.  TicketWorlds: two complete
\* assets, ticket 1 in every status (or without the label), ticket 2 open or
\* closed, and every list of up to two links for the first asset.
\* AssetWorlds: one open ticket, linked to the first asset or not, and the
\* first asset in every shape, or without an id, or the environment unset,
\* or the two assets in the other order with the ticket linked to the first
\* of the batch.
TicketWorlds ==
    [issues : { <<t1, t2>> :
                  t1 \in { Labelled(st) : st \in StatusNames } \cup {Unlabelled("To Do")},
                  t2 \in {Labelled("To Do"), Labelled("Done")} },
     links : { LinksOf(l1, l2) :
                  l1 \in {<<>>, <<1>>, <<1, 2>>, <<2, 1>>, <<1, 1>>},
                  l2 \in {<<>>, <<1>>} },
     assets : {CompleteAssets},
     env : {ConfiguredEnv}]

AssetWorlds ==
    [issues : { <<Labelled("To Do"), Unlabelled("To Do")>> },
     links : { LinksOf(l1, <<>>) : l1 \in {<<>>, <<1>>} },
     assets : { <<Asset("A1", attrs), CompleteAssets[2]>> : attrs \in AttributeLists }
                \cup { <<Asset("", CompleteAssets[1].attributes), CompleteAssets[2]>> },
     env : {ConfiguredEnv}]
    \cup
    [issues : { <<Labelled("To Do"), Unlabelled("To Do")>> },
     links : { LinksOf(l1, <<>>) : l1 \in {<<>>, <<1>>} },
     assets : {CompleteAssets},
     env : Environments]
    \cup
    [issues : { <<Labelled("To Do"), Unlabelled("To Do")>> },
     links : { LinksOf(<<>>, <<1>>) },
     assets : { <<CompleteAssets[2], CompleteAssets[1]>> },
     env : {ConfiguredEnv}]

Worlds == TicketWorlds \cup AssetWorlds

\* One process runs the loop: nothing runs beside it.
NoWorkers == [w \in {} |-> 0]

\* The record of a run: whether the iteration before the running one came to
\* its end without a failed remote call, the urgency classes it gave its
\* assets if so, and how many reminder comments each ticket has got.  A run
\* that is not recorded keeps NoHistory(FALSE).
NoHistory(kept) == [kept |-> kept, clean |-> FALSE, classes |-> <<>>,
                    reminders |-> [k \in {} |-> 0]]

NoFrame == [asset |-> Asset("", <<>>), attributes |-> EmptyMap, update_date |-> NoDate,
            now |-> 0, class |-> "None", update_issues |-> <<>>, n_update |-> 0,
            j |-> 0, is_outdated |-> FALSE, n_existing |-> -1]

Init ==
    /\ \E w \in Worlds :
         /\ issues = w.issues
         /\ links = w.links
         /\ assets = w.assets
         /\ env = w.env
    /\ clock = StartTime
    /\ task_cache = EmptyMap
    /\ pc = "loop"
    /\ pass = 0
    /\ batch = <<>>
    /\ idx = 1
    /\ cur = NoFrame
    /\ fetches = EmptyMap
    /\ classes = <<>>
    /\ calls = <<>>
    /\ failures = [run |-> 0, pass |-> 0]
    /\ history = NoHistory(FALSE)
    /\ workers = NoWorkers

(***************************************************************************)
(* The remote calls and their outcomes                                     *)
(***************************************************************************)
\* n more remote calls fail
Fail(n) ==
    /\ failures.run + n <= MaxFailures
    /\ failures' = [run |-> failures.run + n, pass |-> failures.pass + n]

Cost(ok) == IF ok THEN 0 ELSE 1

\* JiraBoard.get_task through _request: the ticket, None for an empty body,
\* or the error dict; a key that names no ticket is an HTTP error.
GetTaskResults(issue_key) ==
    (IF issue_key \in DOMAIN issues THEN {TaskOf(issues[issue_key], pass)} ELSE {})
        \cup {NoTask(pass), ErrorDict(pass)}

\* What get_task returns, if called now, for each of the keys.
Responses(keys) ==
    { r \in [keys -> UNION { GetTaskResults(k) : k \in keys }] :
        \A k \in keys : r[k] \in GetTaskResults(k) }

\* the get_task calls among fetched that did not return the ticket
FailedFetches(resp, fetched) ==
    Cardinality({ i \in 1..Len(fetched) : resp[fetched[i]].kind # "task" })

Range(seq) == { seq[i] : i \in 1..Len(seq) }

\* JiraAssets.get_object_connected_tickets, lines 103-106: the tickets of
\* the response, or [] when the request failed.
ConnectedTickets(object_id, ok) == IF ok THEN links[object_id] ELSE <<>>

\* fetches after the get_task calls for the keys of fetched
RECURSIVE Counted(_, _)
Counted(count, fetched) ==
    IF fetched = <<>> THEN count
    ELSE LET k == Head(fetched)
             n == IF k \in DOMAIN count THEN count[k] ELSE 0
         IN  Counted((k :> n + 1) @@ count, Tail(fetched))

\* One call of the log: of the creator, of the decider (with the status it
\* read and the instant it read, NoDate when it returned before the read), of
\* the active-status check, or of createTicket, addComment or the transition
\* (with the outcome of the remote call).
Call(op, key, text, fields, status, now, outcome) ==
    [op |-> op, asset |-> idx, key |-> key, text |-> text, fields |-> fields,
     status |-> status, now |-> now, outcome |-> outcome]

(***************************************************************************)
(* app/updater.py: run_every_10_minutes                                     *)
(***************************************************************************)
\* lines 282-285 and 290-291: the loop is entered, or the batch is done and
\* the sleep is over; the iteration starts by clearing the cache
ClearCache ==
    /\ pc = "loop" \/ (pc = "assets" /\ idx > Len(batch))
    /\ pass < MaxPass
    /\ task_cache' = ClearTaskCache(task_cache)
    /\ pass' = pass + 1
    /\ fetches' = EmptyMap
    /\ pc' = "query"
    \* the locals of the iteration before are gone
    /\ batch' = <<>>
    /\ idx' = 1
    /\ cur' = NoFrame
    /\ classes' = <<>>
    /\ calls' = <<>>
    /\ failures' = [failures EXCEPT !.pass = 0]
    \* whether the iteration before came to its end without a failed remote
    \* call, and if so the urgency classes it gave its assets
    /\ history' = IF ~history.kept THEN history
                  ELSE IF pc = "assets" /\ failures.pass = 0
                  THEN [history EXCEPT !.clean = TRUE, !.classes = classes]
                  ELSE [history EXCEPT !.clean = FALSE, !.classes = <<>>]
    /\ UNCHANGED <<remote, clock, workers>>

\* lines 286-289: the AQL query.  An error dict has no "values"; an empty
\* body makes _request return None, and assets.get raises.
QueryAssets ==
    /\ pc = "query"
    /\ \E outcome \in {"ok", "error", "none"} :
         /\ Fail(Cost(outcome = "ok"))
         /\ batch' = IF outcome = "ok" THEN assets ELSE <<>>
         /\ pc' = IF outcome = "none" THEN "crashed" ELSE "assets"
    /\ UNCHANGED <<remote, clock, task_cache, pass, idx, cur, fetches, classes, calls,
                   history, workers>>

(***************************************************************************)
(* process_asset_update                                                    *)
(***************************************************************************)
\* Dispatch that hands an asset that is not yet due soon to the handler of
\* the due-soon ones.
DispatchCurrentAsFuture(class) ==
    CASE class = "Overdue" -> "overdue"
      [] OTHER -> "future"

\* Dispatch that hands a due-soon asset to the handler of the overdue ones.
DispatchDueSoonAsOverdue(class) ==
    CASE class \in {"Overdue", "DueSoon"} -> "overdue"
      [] OTHER -> "assets"

\* lines 211-224: the handler of an urgency class
Dispatch(class) ==
    CASE class = "Overdue" -> "overdue"
      [] class = "DueSoon" -> "future"
      [] OTHER -> "assets"

ProcessAssetUpdate ==
    /\ pc = "assets"
    /\ idx <= Len(batch)
    /\ LET asset == batch[idx]
           attributes == ExtractAttributeValues(asset)
           update_date == ExtractUpdateDate(attributes)
           frame == [NoFrame EXCEPT !.asset = asset, !.attributes = attributes,
                                    !.update_date = update_date]
       IN  IF FirstValue(attributes, "Update") = IndexError
           THEN \* helpres.py:32: [][0] raises, nothing catches it
                /\ pc' = "crashed"
                /\ cur' = [frame EXCEPT !.class = "Raised"]
                /\ UNCHANGED <<clock, idx>>
           ELSE IF update_date = NoDate
           THEN /\ pc' = "assets"
                /\ idx' = idx + 1
                /\ cur' = [frame EXCEPT !.class = "Skipped"]
                /\ UNCHANGED clock
           ELSE \E now \in ClockReads(clock) :
                  LET class == Classify(update_date, now)
                  IN  /\ clock' = now
                      /\ cur' = [frame EXCEPT !.class = class, !.now = now]
                      /\ pc' = Dispatch(class)
                      /\ idx' = IF Dispatch(class) = "assets" THEN idx + 1 ELSE idx
    /\ classes' = Append(classes, cur'.class)
    /\ calls' = <<>>
    /\ UNCHANGED <<remote, task_cache, pass, batch, fetches, failures, history, workers>>

(***************************************************************************)
(* handle_overdue_asset, up to the dispatch of line 235                    *)
(***************************************************************************)
\* OverdueBranch without its else: nothing is done for an asset without
\* update issues.
OverdueBranchNoElse(update_issues) == IF update_issues # <<>> THEN "decide" ELSE "assets"

\* lines 235-239: the decider for each update issue, or else the creator
OverdueBranch(update_issues) == IF update_issues # <<>> THEN "decide" ELSE "create"

HandleOverdueAsset ==
    /\ pc = "overdue"
    /\ \E ok \in BOOLEAN :
       \E resp \in Responses(Range(ConnectedTickets(cur.asset.id, ok))) :
         LET linked_issues == ConnectedTickets(cur.asset.id, ok)
             f == FilterUpdateIssues(linked_issues, task_cache, resp)
         IN  /\ Fail(Cost(ok) + FailedFetches(resp, f.fetched))
             /\ task_cache' = f.cache
             /\ fetches' = Counted(fetches, f.fetched)
             /\ cur' = [cur EXCEPT !.update_issues = f.filtered,
                                   !.n_update = Len(f.filtered),
                                   !.j = 1, !.is_outdated = TRUE]
             /\ pc' = OverdueBranch(f.filtered)
             /\ idx' = IF OverdueBranch(f.filtered) = "assets" THEN idx + 1 ELSE idx
    /\ UNCHANGED <<remote, clock, pass, batch, classes, calls, history, workers>>

(***************************************************************************)
(* process_linked_update_issue, for issue j of the loop of line 236        *)
(***************************************************************************)
\* the tickets of the reminder comments that were posted among the calls
\* that after has more than before
PostedReminders(before, after) ==
    LET new == SubSeq(after, Len(before) + 1, Len(after))
        IsPosted(c) == /\ c.op = "comment"
                       /\ c.text[1] = COMMENT_REMINDER("")[1]
                       /\ c.outcome = "ok"
        posted == SelectSeq(new, IsPosted)
    IN  [i \in 1..Len(posted) |-> posted[i].key]

\* JiraBoard.add_comment: posted, or the error dict of _request
CommentOutcomes == {"ok", "error"}
\* JiraBoard.transition_task_by_name: done; the POST failed (an error dict);
\* or it raised, because the transitions could not be listed or none of them
\* has the name (lines 113-114, 124-127)
TransitionOutcomes == {"ok", "error", "raise"}

ProcessLinkedUpdateIssue ==
    /\ pc = "decide"
    /\ LET issue_key == cur.update_issues[cur.j]
           last == cur.j >= Len(cur.update_issues)
           update_date_str == FirstValue(cur.attributes, "Update")
           update_date == Strptime(update_date_str)
           Return == /\ pc' = IF last THEN "assets" ELSE "decide"
                     /\ idx' = IF last THEN idx + 1 ELSE idx
                     /\ cur' = IF last THEN cur ELSE [cur EXCEPT !.j = cur.j + 1]
           Raise == /\ pc' = "crashed"
                    /\ UNCHANGED <<idx, cur>>
       IN  \E resp \in Responses({issue_key}) :
             LET got == GetTaskCached(task_cache, issue_key, resp)
                 status == StatusName(got.task)
                 Decider(now) == Call("decider", issue_key, NoText, NoFields, status, now, "")
             IN  /\ task_cache' = got.cache
                 /\ fetches' = Counted(fetches, got.fetched)
                 /\ IF TaskTruthy(got.task) /\ update_date_str = IndexError
                    THEN \* line 84: [][0] raises
                         /\ Fail(FailedFetches(resp, got.fetched))
                         /\ calls' = Append(calls, Decider(NoDate))
                         /\ Raise
                         /\ UNCHANGED <<clock, issues>>
                    ELSE IF \/ ~TaskTruthy(got.task)
                            \/ ~Truthy(update_date_str)
                            \/ update_date = NoDate
                    THEN /\ Fail(FailedFetches(resp, got.fetched))
                         /\ calls' = Append(calls, Decider(NoDate))
                         /\ Return
                         /\ UNCHANGED <<clock, issues>>
                    ELSE \E now \in ClockReads(clock) :
                           LET act == DeciderAction(status, update_date, now)
                               text == IF act.comment = "reminder"
                                       THEN COMMENT_REMINDER(update_date_str)
                                       ELSE COMMENT_REQUEST_UPDATE
                               Comment(c) == Call("comment", issue_key, text, NoFields,
                                                  "", NoDate, c)
                               Transition(t) == Call("transition", issue_key,
                                                     <<"In Progress", "">>, NoFields,
                                                     "", NoDate, t)
                           IN  /\ clock' = now
                               /\ IF act.comment = "none"
                                  THEN /\ Fail(FailedFetches(resp, got.fetched))
                                       /\ calls' = Append(calls, Decider(now))
                                       /\ Return
                                       /\ UNCHANGED issues
                                  ELSE \E c \in CommentOutcomes :
                                         IF act.transition
                                         THEN \E t \in TransitionOutcomes :
                                                /\ Fail(FailedFetches(resp, got.fetched)
                                                        + Cost(c = "ok") + Cost(t = "ok"))
                                                /\ calls' = calls \o
                                                     <<Decider(now), Comment(c), Transition(t)>>
                                                /\ issues' = IF t = "ok"
                                                     THEN [issues EXCEPT
                                                            ![issue_key].status = "In Progress"]
                                                     ELSE issues
                                                /\ IF t = "raise" THEN Raise ELSE Return
                                         ELSE /\ Fail(FailedFetches(resp, got.fetched)
                                                      + Cost(c = "ok"))
                                              /\ calls' = calls \o <<Decider(now), Comment(c)>>
                                              /\ Return
                                              /\ UNCHANGED issues
    /\ history' = IF history.kept
                  THEN [history EXCEPT
                          !.reminders = Counted(@, PostedReminders(calls, calls'))]
                  ELSE history
    /\ UNCHANGED <<links, assets, env, pass, batch, classes, workers>>

(***************************************************************************)
(* handle_future_asset, up to the dispatch of line 269                     *)
(***************************************************************************)
RECURSIVE StatusChecks(_)
StatusChecks(checked) ==
    IF checked = <<>> THEN <<>>
    ELSE <<Call("status_check", Head(checked), NoText, NoFields, "", NoDate, "")>>
           \o StatusChecks(Tail(checked))

\* FutureBranch that never creates.
FutureBranchNever(active_issue_found) == "assets"

\* lines 269-271: the creator unless an active issue was found
FutureBranch(active_issue_found) == IF ~active_issue_found THEN "create" ELSE "assets"

HandleFutureAsset ==
    /\ pc = "future"
    /\ \E ok \in BOOLEAN :
       \E resp \in Responses(Range(ConnectedTickets(cur.asset.id, ok))) :
         LET linked_issues == ConnectedTickets(cur.asset.id, ok)
             f == FilterUpdateIssues(linked_issues, task_cache, resp)
             loop == FutureLoopFrom(f.filtered, 1, f.cache, resp, <<>>, <<>>)
         IN  /\ Fail(Cost(ok) + FailedFetches(resp, f.fetched \o loop.fetched))
             /\ task_cache' = loop.cache
             /\ fetches' = Counted(fetches, f.fetched \o loop.fetched)
             /\ calls' = calls \o StatusChecks(loop.checked)
             /\ cur' = [cur EXCEPT !.update_issues = f.filtered,
                                   !.n_update = Len(f.filtered),
                                   !.is_outdated = FALSE]
             /\ pc' = FutureBranch(loop.found)
             /\ idx' = IF FutureBranch(loop.found) = "assets" THEN idx + 1 ELSE idx
    /\ UNCHANGED <<remote, clock, pass, batch, classes, history, workers>>

(***************************************************************************)
(* create_update_task, and the return of the handler that called it        *)
(***************************************************************************)
\* JiraBoard.create_task through _request: the created ticket with its key,
\* an error dict, or None
CreateOutcomes == {"ok", "error", "none"}

\* The workflow's first status of a ticket created through the API
InitialStatus == "To Do"

\* create_update_task, lines 131-142 and 153-161: the values that must be
\* there (the two attributes are read after the check for a linked issue)
Configured(workspace_id, project_key, asset_id) ==
    Truthy(workspace_id) /\ Truthy(project_key) /\ Truthy(asset_id)

HasNameAndDate(asset_name, duedate) == Truthy(asset_name) /\ Truthy(duedate)

\* AfterCreate that calls create_update_task again when no ticket came back.
AfterCreateRetry(response) == IF response # "ok" THEN "create" ELSE "assets"

\* lines 187-193: without a key in the response the failure is logged, with
\* one the creation is; the function returns either way
AfterCreate(response) == IF response # "ok" THEN "assets" ELSE "assets"

CreateUpdateTask ==
    /\ pc = "create"
    /\ LET workspace_id == env.workspace_id
           project_key == env.project_key
           asset_id == cur.asset.id
           asset_name == FirstValue(cur.attributes, "Name")
           duedate == FirstValue(cur.attributes, "Update")
           Creator == Call("creator", 0,
                           <<"is_outdated", IF cur.is_outdated THEN "True" ELSE "False">>,
                           NoFields, "", NoDate, "")
           Return == /\ pc' = "assets"
                     /\ idx' = idx + 1
           Raise == /\ pc' = "crashed"
                    /\ UNCHANGED idx
       IN  IF ~Configured(workspace_id, project_key, asset_id)
           THEN /\ calls' = Append(calls, Creator)
                /\ Return
                /\ UNCHANGED <<issues, links, task_cache, fetches, failures, cur>>
           ELSE \E ok \in BOOLEAN :
                \E resp \in Responses(Range(ConnectedTickets(asset_id, ok))) :
                  LET linked_issues == ConnectedTickets(asset_id, ok)
                      f == FilterUpdateIssues(linked_issues, task_cache, resp)
                      failed == Cost(ok) + FailedFetches(resp, f.fetched)
                  IN  /\ task_cache' = f.cache
                      /\ fetches' = Counted(fetches, f.fetched)
                      \* line 145: update_issues of the creator
                      /\ cur' = [cur EXCEPT !.n_existing = Len(f.filtered)]
                      /\ IF f.filtered # <<>>
                         THEN /\ Fail(failed)
                              /\ calls' = Append(calls, Creator)
                              /\ Return
                              /\ UNCHANGED <<issues, links>>
                         ELSE IF \/ asset_name = IndexError
                                 \/ (Truthy(asset_name) /\ duedate = IndexError)
                         THEN \* [][0] raises
                              /\ Fail(failed)
                              /\ calls' = Append(calls, Creator)
                              /\ Raise
                              /\ UNCHANGED <<issues, links>>
                         ELSE IF ~HasNameAndDate(asset_name, duedate)
                         THEN /\ Fail(failed)
                              /\ calls' = Append(calls, Creator)
                              /\ Return
                              /\ UNCHANGED <<issues, links>>
                         ELSE LET payload == TaskPayload(project_key, asset_id, asset_name,
                                                         duedate, cur.attributes)
                                  fields == CreateTaskFields(payload)
                                  key == Len(issues) + 1
                              IN  \E r \in CreateOutcomes :
                                    /\ Fail(failed + Cost(r = "ok"))
                                    /\ calls' = calls \o
                                         <<Creator,
                                           Call("createTicket", IF r = "ok" THEN key ELSE 0,
                                                NoText, fields, "", NoDate, r)>>
                                    /\ issues' = IF r = "ok"
                                                 THEN Append(issues,
                                                        [status |-> InitialStatus,
                                                         labels |-> fields.labels])
                                                 ELSE issues
                                    /\ links' = IF r = "ok"
                                                THEN [links EXCEPT ![asset_id] = Append(@, key)]
                                                ELSE links
                                    /\ pc' = AfterCreate(r)
                                    /\ idx' = IF AfterCreate(r) = "assets"
                                              THEN idx + 1 ELSE idx
    /\ UNCHANGED <<assets, env, clock, pass, batch, classes, history, workers>>

Next ==
    \/ ClearCache
    \/ QueryAssets
    \/ ProcessAssetUpdate
    \/ HandleOverdueAsset
    \/ ProcessLinkedUpdateIssue
    \/ HandleFutureAsset
    \/ CreateUpdateTask

Spec == Init /\ [][Next]_vars

(***************************************************************************)
(* process_linked_update_issue called on its own: any ticket states, one   *)
(* or two update issues, either complete asset, any instant.               *)
(***************************************************************************)
\* Status names of other workflows: another spelling of 'Done', and none.
OtherStatusNames == {"done", ""}

InitDecider ==
    /\ issues \in { w.issues : w \in TicketWorlds }
                  \cup { <<Labelled(st), Labelled("To Do")>> : st \in OtherStatusNames }
    /\ links = LinksOf(<<1, 2>>, <<>>)
    /\ assets = CompleteAssets
    /\ env = ConfiguredEnv
    /\ clock \in ClockValues
    /\ task_cache = EmptyMap
    /\ pc = "decide"
    /\ pass = 1
    /\ \E a \in Range(CompleteAssets) \cup {Asset("A1", l) : l \in AttributeLists} :
       \E update_issues \in {<<1>>, <<1, 2>>} :
         /\ batch = <<a>>
         /\ cur = [NoFrame EXCEPT !.asset = a,
                                  !.attributes = ExtractAttributeValues(a),
                                  !.update_date = ExtractUpdateDate(ExtractAttributeValues(a)),
                                  !.class = "Direct",
                                  !.update_issues = update_issues,
                                  !.n_update = Len(update_issues),
                                  !.j = 1]
    /\ idx = 1
    /\ fetches = EmptyMap
    /\ classes = <<>>
    /\ calls = <<>>
    /\ failures = [run |-> 0, pass |-> 0]
    /\ history = NoHistory(FALSE)
    /\ workers = NoWorkers

NextDecider == ProcessLinkedUpdateIssue

SpecDecider == InitDecider /\ [][NextDecider]_vars

(***************************************************************************)
(* run_every_10_minutes with the record of the run kept: two complete      *)
(* assets, ticket 1 in every status, and the first asset linked to no      *)
(* ticket, to ticket 1 or to both, the second to none or to ticket 1.      *)
(***************************************************************************)
HistoryWorlds ==
    { w \in TicketWorlds :
        /\ w.links["A1"] \in {<<>>, <<1>>, <<1, 2>>}
        /\ w.links["A2"] \in {<<>>, <<1>>} }

InitHistory ==
    /\ \E w \in HistoryWorlds :
         /\ issues = w.issues
         /\ links = w.links
         /\ assets = w.assets
         /\ env = w.env
    /\ clock = StartTime
    /\ task_cache = EmptyMap
    /\ pc = "loop"
    /\ pass = 0
    /\ batch = <<>>
    /\ idx = 1
    /\ cur = NoFrame
    /\ fetches = EmptyMap
    /\ classes = <<>>
    /\ calls = <<>>
    /\ failures = [run |-> 0, pass |-> 0]
    /\ history = NoHistory(TRUE)
    /\ workers = NoWorkers

SpecHistory == InitHistory /\ [][Next]_vars

(***************************************************************************)
(* Two processes in create_update_task for the same asset at the same      *)
(* time, each with the task_cache of its own pass.  A process takes two    *)
(* steps: the link query with the filter (lines 131-150), and the rest     *)
(* with create_task (lines 152-193).                                       *)
(***************************************************************************)
Workers == {1, 2}

\* A process that enters create_update_task: the links it is shown, the
\* number of update issues its filter returns (-1 before), the key of the
\* ticket it creates (0 for none), and its cache.
Entering == [pc |-> "check", linked |-> <<>>, n_existing |-> -1, created |-> 0,
             cache |-> EmptyMap]

\* PreCheckBranch that ignores what the filter returned.
PreCheckBranchAlways(update_issues) == "submit"

\* lines 146-150: return if the asset has an update issue already
PreCheckBranch(update_issues) == IF update_issues # <<>> THEN "done" ELSE "submit"

\* lines 131-150
CreateUpdateTaskCheck(w) ==
    /\ pc = "race"
    /\ workers[w].pc = "check"
    /\ LET asset_id == cur.asset.id
       IN  IF ~Configured(env.workspace_id, env.project_key, asset_id)
           THEN /\ workers' = [workers EXCEPT ![w].pc = "done"]
                /\ UNCHANGED failures
           ELSE \E ok \in BOOLEAN :
                \E resp \in Responses(Range(ConnectedTickets(asset_id, ok))) :
                  LET linked_issues == ConnectedTickets(asset_id, ok)
                      f == FilterUpdateIssues(linked_issues, workers[w].cache, resp)
                  IN  /\ Fail(Cost(ok) + FailedFetches(resp, f.fetched))
                      /\ workers' = [workers EXCEPT
                                      ![w].pc = PreCheckBranch(f.filtered),
                                      ![w].linked = linked_issues,
                                      ![w].n_existing = Len(f.filtered),
                                      ![w].cache = f.cache]
    /\ UNCHANGED <<remote, clock, task_cache, pc, pass, batch, idx, cur, fetches,
                   classes, calls, history>>

\* lines 152-193; a process whose [0] raises is over as well
CreateUpdateTaskSubmit(w) ==
    /\ pc = "race"
    /\ workers[w].pc = "submit"
    /\ LET asset_id == cur.asset.id
           asset_name == FirstValue(cur.attributes, "Name")
           duedate == FirstValue(cur.attributes, "Update")
       IN  IF \/ asset_name = IndexError
              \/ duedate = IndexError
              \/ ~HasNameAndDate(asset_name, duedate)
           THEN /\ workers' = [workers EXCEPT ![w].pc = "done"]
                /\ UNCHANGED <<issues, links, failures>>
           ELSE LET payload == TaskPayload(env.project_key, asset_id, asset_name,
                                           duedate, cur.attributes)
                    fields == CreateTaskFields(payload)
                    key == Len(issues) + 1
                IN  \E r \in CreateOutcomes :
                      /\ Fail(Cost(r = "ok"))
                      /\ issues' = IF r = "ok"
                                   THEN Append(issues, [status |-> InitialStatus,
                                                        labels |-> fields.labels])
                                   ELSE issues
                      /\ links' = IF r = "ok"
                                  THEN [links EXCEPT ![asset_id] = Append(@, key)]
                                  ELSE links
                      /\ workers' = [workers EXCEPT
                                      ![w].pc = "done",
                                      ![w].created = IF r = "ok" THEN key ELSE 0]
    /\ UNCHANGED <<assets, env, clock, task_cache, pc, pass, batch, idx, cur, fetches,
                   classes, calls, history>>

\* Both processes have reached create_update_task for the first asset: its
\* handler found no update issue, or (due soon) none that is active.
InitConcurrent ==
    /\ \E w \in TicketWorlds :
         /\ issues = w.issues
         /\ links = w.links
         /\ assets = w.assets
         /\ env = w.env
    /\ clock = StartTime
    /\ task_cache = EmptyMap
    /\ pc = "race"
    /\ pass = 1
    /\ batch = assets
    /\ idx = 1
    /\ cur = [NoFrame EXCEPT !.asset = assets[1],
                             !.attributes = ExtractAttributeValues(assets[1])]
    /\ fetches = EmptyMap
    /\ classes = <<>>
    /\ calls = <<>>
    /\ failures = [run |-> 0, pass |-> 0]
    /\ history = NoHistory(FALSE)
    /\ workers = [w \in Workers |-> Entering]

NextConcurrent ==
    \E w \in Workers :
        \/ CreateUpdateTaskCheck(w)
        \/ CreateUpdateTaskSubmit(w)

SpecConcurrent == InitConcurrent /\ [][NextConcurrent]_vars

(***************************************************************************)
(* filter_update_issues called on its own: on the links of the first       *)
(* asset, in any order and with repetitions, with the cache empty or       *)
(* holding ticket 1 or a failed fetch of it.                               *)
(***************************************************************************)
LinkLists == {<<>>, <<1>>, <<1, 2>>, <<2, 1>>, <<1, 1>>, <<2, 1, 2>>, <<1, 2, 1>>}

InitFilter ==
    /\ issues \in { w.issues : w \in TicketWorlds }
    /\ links \in { LinksOf(l, <<>>) : l \in LinkLists }
    /\ assets = CompleteAssets
    /\ env = ConfiguredEnv
    /\ clock = StartTime
    /\ pass = 1
    /\ task_cache \in { EmptyMap, 1 :> TaskOf(issues[1], 1), 1 :> NoTask(1) }
    /\ pc = "filter"
    /\ batch = assets
    /\ idx = 1
    /\ cur = [NoFrame EXCEPT !.asset = assets[1]]
    /\ fetches = EmptyMap
    /\ classes = <<>>
    /\ calls = <<>>
    /\ failures = [run |-> 0, pass |-> 0]
    /\ history = NoHistory(FALSE)
    /\ workers = NoWorkers

\* update_issues = filter_update_issues(linked_issues, jira_board)
ApplyFilter ==
    /\ pc = "filter"
    /\ LET linked_issues == links[cur.asset.id]
       IN  \E resp \in Responses(Range(linked_issues)) :
             LET f == FilterUpdateIssues(linked_issues, task_cache, resp)
             IN  /\ Fail(FailedFetches(resp, f.fetched))
                 /\ task_cache' = f.cache
                 /\ fetches' = Counted(fetches, f.fetched)
                 /\ cur' = [cur EXCEPT !.update_issues = f.filtered,
                                       !.n_update = Len(f.filtered)]
    /\ pc' = "filtered"
    /\ UNCHANGED <<remote, clock, pass, batch, idx, classes, calls, history, workers>>

SpecFilter == InitFilter /\ [][ApplyFilter]_vars

(***************************************************************************)
(* The claims                                                              *)
(***************************************************************************)
\* the calls of the log with the operation op
CallsOf(op) == { i \in 1..Len(calls) : calls[i].op = op }

\* C1: an asset with a parseable due date d, classified at the instant now,
\* is Overdue iff d <= now, DueSoon iff now < d <= now + 432000 seconds, and
\* Current otherwise, and it is handed to the handler of its class.
C1_Classification ==
    cur.class \in {"Overdue", "DueSoon", "Current"} =>
        LET d == Strptime(FirstValue(ExtractAttributeValues(cur.asset), "Update"))
            now == cur.now
        IN  /\ d # NoDate
            /\ (cur.class = "Overdue") <=> (d <= now)
            /\ (cur.class = "DueSoon") <=> (now < d /\ d <= now + 432000)
            /\ (cur.class = "Current") <=> (d > now + 432000)
            /\ pc \in {"overdue", "decide"} => cur.class = "Overdue"
            /\ pc = "future" => cur.class = "DueSoon"
            /\ cur.class = "Current" => pc \in {"assets", "query"} /\ calls = <<>>

\* C1, the case: an asset due in exactly five days is handed to the handler
\* of the due-soon assets.
C1_Witness ==
    /\ pc = "future"
    /\ cur.class = "DueSoon"
    /\ cur.update_date = cur.now + 5 * 86400

\* what the table of the decider asks for: the comment and the transition
ExpectedActions(issue_key, s, d, update_date_str, now) ==
    IF s # "Done" /\ d <= now /\ s # "In Progress"
    THEN << [op |-> "comment", key |-> issue_key, text |-> COMMENT_REMINDER(update_date_str)],
            [op |-> "transition", key |-> issue_key, text |-> <<"In Progress", "">>] >>
    ELSE IF s = "Done" /\ d <= now
    THEN << [op |-> "comment", key |-> issue_key, text |-> COMMENT_REQUEST_UPDATE] >>
    ELSE << >>

\* the calls that follow the decider call i of the log, up to the next one
ActionsAfter(i) ==
    LET later == { k \in CallsOf("decider") : k > i }
        end == IF later = {} THEN Len(calls) + 1
               ELSE CHOOSE k \in later : \A m \in later : k <= m
    IN  [k \in 1..(end - i - 1) |->
            [op |-> calls[i + k].op, key |-> calls[i + k].key, text |-> calls[i + k].text]]

\* C2: a decider call that read the status s of its ticket and the instant
\* now makes exactly the calls its table gives for (s, d, now), d being the
\* asset's due date, and no call creates a ticket.
C2_DeciderTable ==
    /\ \A i \in CallsOf("decider") :
         calls[i].now # NoDate =>
           ActionsAfter(i) = ExpectedActions(calls[i].key, calls[i].status,
                                             cur.update_date,
                                             FirstValue(cur.attributes, "Update"),
                                             calls[i].now)
    /\ CallsOf("decider") # {} => CallsOf("createTicket") = {} /\ CallsOf("creator") = {}

\* C2, the case: a ticket that is 'To Do' for an asset that is due got the
\* reminder and the transition.
C2_Witness ==
    \E i \in CallsOf("decider") :
        /\ calls[i].status = "To Do"
        /\ cur.update_date <= calls[i].now
        /\ Len(ActionsAfter(i)) = 2

\* The handler of the asset of cur has returned, or has raised.
Handled == pc \in {"assets", "crashed"}

\* What create_update_task needs: the two identifiers of the environment,
\* the asset's id, its name and its due date.
CreatorPreconditions ==
    /\ Truthy(env.workspace_id)
    /\ Truthy(env.project_key)
    /\ Truthy(cur.asset.id)
    /\ "Name" \in DOMAIN cur.attributes /\ cur.attributes["Name"] # <<>>
    /\ Truthy(cur.attributes["Name"][1])
    /\ "Update" \in DOMAIN cur.attributes /\ cur.attributes["Update"] # <<>>
    /\ Truthy(cur.attributes["Update"][1])

IsDecider(c) == c.op = "decider"
\* the keys the decider was called for, in the order of the calls
DeciderKeys ==
    LET d == SelectSeq(calls, IsDecider)
    IN  [i \in 1..Len(d) |-> d[i].key]

C4_Stated ==
    (Handled /\ cur.class = "Overdue" /\ cur.n_update >= 1) =>
        /\ DeciderKeys = cur.update_issues
        /\ CallsOf("creator") = {}
        /\ CallsOf("createTicket") = {}

\* the update issues of the asset of cur whose cached status is in statuses
IssuesWithStatus(statuses) ==
    { i \in 1..Len(cur.update_issues) :
        /\ cur.update_issues[i] \in DOMAIN task_cache
        /\ TaskTruthy(task_cache[cur.update_issues[i]])
        /\ StatusName(task_cache[cur.update_issues[i]]) \in statuses }

IsCreator(c) == c.op = "creator"
IsStatusCheck(c) == c.op = "status_check"

\* C5 as stated, for the runs in which no remote call fails: a DueSoon asset
\* one of whose update issues is 'To Do' or 'In Progress' gets no creator
\* call, and the loop stops at the first such issue; any other DueSoon asset
\* gets one creator call, with is_outdated False; no DueSoon asset gets a
\* decider call.
C5_Stated ==
    (Handled /\ cur.class = "DueSoon" /\ failures.run = 0) =>
        LET active == IssuesWithStatus({"To Do", "In Progress"})
            first == CHOOSE i \in active : \A k \in active : i <= k
        IN  /\ CallsOf("decider") = {}
            /\ active # {} =>
                 /\ CallsOf("creator") = {}
                 /\ Len(SelectSeq(calls, IsStatusCheck)) = first
            /\ active = {} =>
                 /\ Cardinality(CallsOf("creator")) = 1
                 /\ SelectSeq(calls, IsCreator)[1].text = <<"is_outdated", "False">>

\* C6 as stated, for the runs in which no remote call fails: a DueSoon
\* asset none of whose update issues is 'To Do' or 'In Progress', and which
\* has what the creator needs, gets a createTicket call.
C6_Stated ==
    ( /\ Handled
      /\ cur.class = "DueSoon"
      /\ failures.run = 0
      /\ IssuesWithStatus({"To Do", "In Progress"}) = {}
      /\ CreatorPreconditions ) =>
        CallsOf("createTicket") # {}

\* the tickets linked to an asset that carry the label
RemediationTickets(asset_id) ==
    { k \in Range(links[asset_id]) : "AssetUpdate" \in issues[k].labels }

\* the batch has been processed to its end
PassComplete == pc = "assets" /\ idx > Len(batch) /\ batch # <<>>

\* asset i of the batch was Overdue or DueSoon and has what the creator needs
Eligible(i) ==
    LET attributes == ExtractAttributeValues(batch[i])
    IN  /\ classes[i] \in {"Overdue", "DueSoon"}
        /\ Truthy(env.workspace_id) /\ Truthy(env.project_key)
        /\ Truthy(batch[i].id)
        /\ Truthy(FirstValue(attributes, "Name"))
        /\ FirstValue(attributes, "Name") # IndexError
        /\ Truthy(FirstValue(attributes, "Update"))

\* C7 as stated: after a pass in which no remote call failed, every
\* Overdue or DueSoon asset of the batch has exactly one linked remediation
\* ticket that is not 'Done'.
C7_Stated ==
    (PassComplete /\ failures.pass = 0) =>
        \A i \in 1..Len(batch) :
            Eligible(i) =>
              Cardinality({ k \in RemediationTickets(batch[i].id) :
                              issues[k].status # "Done" }) = 1

\* C7, amended: after a pass in which no remote call failed, every Overdue
\* or DueSoon asset of the batch has at least one linked remediation ticket
\* (which may be 'Done', and need not be the only one).
C7_SomeTicket ==
    (PassComplete /\ failures.pass = 0) =>
        \A i \in 1..Len(batch) :
            Eligible(i) => RemediationTickets(batch[i].id) # {}

\* C7, the case: a pass without a failure is over, and it has created the
\* one remediation ticket of an asset.
C7_Witness ==
    /\ PassComplete
    /\ failures.pass = 0
    /\ \E i \in 1..Len(batch) :
         /\ Eligible(i)
         /\ \E k \in RemediationTickets(batch[i].id) :
              k > 2 /\ RemediationTickets(batch[i].id) = {k}

\* C8: between two resets of the cache, get_task is called at most once for
\* a key, and what it returned, a ticket or not, is in the cache.
C8_OneFetchPerKey ==
    /\ \A k \in DOMAIN fetches : fetches[k] <= 1
    /\ DOMAIN fetches = DOMAIN task_cache

\* C8, the case: the fetch of a linked ticket failed, and the creator's
\* filter has looked the key up again.
C8_Witness ==
    /\ pc = "assets"
    /\ cur.n_existing = 0
    /\ CallsOf("creator") # {}
    /\ \E k \in Range(links[cur.asset.id]) :
         /\ k \in DOMAIN task_cache
         /\ task_cache[k].kind = "none"
         /\ fetches[k] = 1

\* C9: the cache is empty when the assets are queried, before any asset of
\* the pass is processed, and every entry it holds later was fetched in the
\* pass that is running.
C9_FreshCache ==
    /\ pc = "query" => task_cache = EmptyMap /\ classes = <<>> /\ batch = <<>>
    /\ pc # "loop" => pass >= 1
    /\ \A k \in DOMAIN task_cache :
         /\ task_cache[k].pass = pass
         /\ k \in DOMAIN fetches
         /\ fetches[k] >= 1

\* C9, the case: the second pass has fetched a ticket that the first pass
\* had created.
C9_Witness ==
    /\ pass = 2
    /\ \E k \in DOMAIN task_cache :
         /\ k > 2
         /\ task_cache[k].kind = "task"
         /\ task_cache[k].pass = 2

\* C10: a createTicket call carries the asset's name in its summary, the
\* asset's 'Update' value as its due date, and the label 'AssetUpdate'; there
\* is none when an identifier of the environment, the asset's id, its name
\* or its due date is missing.
C10_CreatePayload ==
    /\ \A i \in CallsOf("createTicket") :
         LET fields == calls[i].fields
             asset_name == FirstValue(cur.attributes, "Name")
             duedate == FirstValue(cur.attributes, "Update")
         IN  /\ Truthy(asset_name) /\ asset_name # IndexError
             /\ fields.summary = <<"Update ", asset_name>>
             /\ Truthy(duedate) /\ duedate # IndexError
             /\ fields.duedate = duedate
             /\ "AssetUpdate" \in fields.labels
    /\ ~CreatorPreconditions => CallsOf("createTicket") = {}

\* C10, the case: a ticket has been created.
C10_Witness ==
    \E i \in CallsOf("createTicket") : calls[i].fields.project = "OPS"

\* a call of the log is an addComment or a transition request that failed
IsFailedNudge(c) == c.op \in {"comment", "transition"} /\ c.outcome # "ok"

\* C11 as stated: a failed addComment or 'In Progress' transition for a
\* ticket does not end the pass: the loop goes on with the next ticket and
\* the next asset.
C11_Stated ==
    (\E i \in 1..Len(calls) : IsFailedNudge(calls[i])) => pc # "crashed"

\* asset a of the batch has the urgency class the iteration before gave it
SameClass(a) ==
    /\ a \in 1..Len(classes)
    /\ a \in 1..Len(history.classes)
    /\ classes[a] = history.classes[a]

CreatedFor(asset_id) == { k \in Range(links[asset_id]) : k > 2 }

\* the remote calls that have failed in this run are ticket fetches of the
\* running iteration: every link query has answered and shown every ticket
OnlyFetchesFailed ==
    /\ failures.run = failures.pass
    /\ failures.pass = Cardinality({ k \in DOMAIN task_cache : task_cache[k].kind # "task" })

\* C13 as stated: whatever ticket fetches fail, as long as every link query
\* shows the tickets created so far, no asset gets a second ticket created
\* by the system.
C13_Stated ==
    OnlyFetchesFailed => \A a \in AssetIds : Cardinality(CreatedFor(a)) <= 1

\* C14: a process only creates a ticket after its own check has found no
\* update issue, and when two processes have each created one without any
\* failed call, neither check was shown the ticket of the other: both
\* checks came before both creations.
C14_CheckThenCreate ==
    /\ \A w \in DOMAIN workers :
         workers[w].created # 0 =>
            /\ workers[w].n_existing = 0
            /\ workers[w].created \in Range(links[cur.asset.id])
    /\ \A v, w \in DOMAIN workers :
         (v # w /\ workers[v].created # 0 /\ workers[w].created # 0 /\ failures.run = 0) =>
            workers[v].created \notin Range(workers[w].linked)

\* C14, the case: two processes have run side by side without a failed
\* call, and the asset has two tickets created for it.
C14_Witness ==
    /\ pc = "race"
    /\ failures.run = 0
    /\ \A w \in DOMAIN workers : workers[w].pc = "done" /\ workers[w].created # 0
    /\ Cardinality(CreatedFor(cur.asset.id)) = 2

\* the number of times ticket k is linked, over all assets
TimesLinked(k) ==
    LET Count(a) == Cardinality({ i \in 1..Len(links[a]) : links[a][i] = k })
    IN  Count("A1") + Count("A2")

\* C15 as stated: over the passes of a run, a ticket that is linked to one
\* asset, once, gets the overdue-reminder comment at most once.
C15_Stated ==
    \A k \in DOMAIN history.reminders :
        TimesLinked(k) = 1 => history.reminders[k] <= 1

\* C16: a decider call that read a status other than exactly 'Done' and
\* 'In Progress' ('Blocked', 'done', the empty status, 'To Do') for an asset
\* that is due posts the reminder and asks for the 'In Progress' transition.
C16_ExactStatus ==
    \A i \in CallsOf("decider") :
        ( /\ calls[i].now # NoDate
          /\ calls[i].status \notin {"Done", "In Progress"}
          /\ cur.update_date <= calls[i].now ) =>
            /\ Len(ActionsAfter(i)) = 2
            /\ ActionsAfter(i)[1].op = "comment"
            /\ ActionsAfter(i)[1].text =
                 COMMENT_REMINDER(FirstValue(cur.attributes, "Update"))
            /\ ActionsAfter(i)[2].op = "transition"
            /\ ActionsAfter(i)[2].text = <<"In Progress", "">>
            /\ ActionsAfter(i)[1].key = calls[i].key
            /\ ActionsAfter(i)[2].key = calls[i].key

\* C16, the case: a ticket in the status 'done' got the reminder and the
\* transition request.
C16_Witness ==
    \E i \in CallsOf("decider") :
        /\ calls[i].status = "done"
        /\ calls[i].now # NoDate
        /\ cur.update_date <= calls[i].now
        /\ Len(ActionsAfter(i)) = 2

\* the cache holds the ticket of key k, and the ticket has the label
IsMarked(k) ==
    /\ k \in DOMAIN task_cache
    /\ task_cache[k].kind = "task"
    /\ "AssetUpdate" \in task_cache[k].labels

\* the ticket that the cache holds for key k is the remote one, unless the
\* fetch failed
IsFetched(k) ==
    /\ k \in DOMAIN task_cache
    /\ task_cache[k].kind = "task" =>
         /\ task_cache[k].status = issues[k].status
         /\ task_cache[k].labels = issues[k].labels

\* C17: what filter_update_issues returns are the links of its input, in the
\* order of the input and as often as the input has them, whose ticket in
\* the cache has the label 'AssetUpdate'; a link whose fetch returned
\* nothing or an error dict is not among them.
C17_FilterSubsequence ==
    pc = "filtered" =>
        LET linked_issues == links[cur.asset.id]
        IN  /\ cur.update_issues = SelectSeq(linked_issues, IsMarked)
            /\ \A k \in Range(linked_issues) : IsFetched(k)
            /\ \A k \in Range(cur.update_issues) : "AssetUpdate" \in issues[k].labels

\* C17, the case: of the links [1, 2, 1] the filter returned [1, 1]: the
\* fetch of ticket 2, which has the label, had failed.
C17_Witness ==
    /\ pc = "filtered"
    /\ links[cur.asset.id] = <<1, 2, 1>>
    /\ cur.update_issues = <<1, 1>>
    /\ "AssetUpdate" \in issues[2].labels
    /\ task_cache[2].kind # "task"

\* C18: among the calls made for an asset in a pass there is at most one of
\* the creator and at most one createTicket, which the creator issued; when
\* createTicket returns nothing, or an error, the handler returns and the
\* pass moves on.
C18_OneCreatePerAsset ==
    /\ Cardinality(CallsOf("creator")) <= 1
    /\ Cardinality(CallsOf("createTicket")) <= 1
    /\ \A i \in 1..Len(calls) : calls[i].asset = calls[1].asset
    /\ \A i \in CallsOf("createTicket") :
         /\ i > 1 /\ calls[i - 1].op = "creator"
         /\ calls[i].outcome # "ok" =>
              /\ calls[i].key = 0
              /\ i = Len(calls)
              /\ pc = "assets"
              /\ idx = calls[i].asset + 1

\* C18, the case: createTicket returned nothing, or an error, for the first
\* asset, and the pass has moved on to the second.
C18_Witness ==
    /\ pc = "assets"
    /\ idx = 2
    /\ \E i \in CallsOf("createTicket") :
         /\ calls[i].outcome \in {"error", "none"}
         /\ calls[i].asset = 1

\* The due date of the asset in hand is absent, has no value, or is not a
\* date of the form YYYY-MM-DD.
NoUsableDate ==
    /\ cur.class # "None"
    /\ \/ FirstValue(cur.attributes, "Update") = IndexError
       \/ ExtractUpdateDate(cur.attributes) = NoDate

\* C19: an asset whose due date is absent, has no value or does not parse is
\* skipped: no call is made for it and the pass is at the next asset of the
\* batch.
C19_Stated ==
    NoUsableDate =>
        /\ calls = <<>>
        /\ pc = "assets"
        /\ idx > 1
        /\ batch[idx - 1] = cur.asset

\* C20: the step that classifies an asset Current makes no remote call and
\* starts no handler: the tickets, the links, the ticket cache, the fetch
\* counts and the failure counts are what they were, no call is logged for
\* the asset, and the pass is at the next asset.
C20_CurrentNoOp ==
    [][(pc = "assets" /\ Len(classes') = Len(classes) + 1 /\ cur'.class = "Current")
         => /\ issues' = issues
            /\ links' = links
            /\ task_cache' = task_cache
            /\ fetches' = fetches
            /\ failures' = failures
            /\ calls' = <<>>
            /\ pc' = "assets"
            /\ idx' = idx + 1]_vars

\* C20, the case: the second asset of the batch was classified Current when
\* the cache held a ticket fetched for the first.
C20_Witness ==
    /\ cur.class = "Current"
    /\ pc = "assets"
    /\ idx = 3
    /\ calls = <<>>
    /\ \E k \in DOMAIN task_cache : task_cache[k].kind = "task"

\* the reminder comments posted on ticket k, and the 'In Progress'
\* transitions asked for it, among the calls made for the asset in hand
RemindersOn(k) ==
    { i \in CallsOf("comment") :
        /\ calls[i].key = k
        /\ calls[i].text[1] = COMMENT_REMINDER("")[1]
        /\ calls[i].outcome = "ok" }
TransitionsOf(k) == { i \in CallsOf("transition") : calls[i].key = k }

\* C21 as stated: within a pass a ticket gets the overdue-reminder comment
\* at most once and the 'In Progress' transition request at most once, also
\* when its key stands more than once in the link list of an asset (here for
\* the passes in which no remote call has failed).
C21_Stated ==
    failures.run = 0 =>
        \A k \in 1..Len(issues) :
            /\ Cardinality(RemindersOn(k)) <= 1
            /\ Cardinality(TransitionsOf(k)) <= 1

\* C22 as stated: for a ticket the decider reminded, the reminder comment
\* and the 'In Progress' transition took effect together or not at all: the
\* comment is posted exactly when the transition was made and the ticket is
\* 'In Progress' (here for the calls after which the process is still
\* running).
C22_Stated ==
    pc # "crashed" =>
        \A i \in CallsOf("transition") :
            /\ i > 1
            /\ calls[i - 1].op = "comment"
            /\ calls[i - 1].key = calls[i].key
            /\ (calls[i - 1].outcome = "ok") <=>
                 ( /\ calls[i].outcome = "ok"
                   /\ issues[calls[i].key].status = "In Progress" )

\* C23: a decider call that got as far as reading the clock was made for an
\* asset classified Overdue, parsed the due date the classification used,
\* and read an instant that is not before the one of the classification, so
\* the due date is <= the instant it read and its branch is neither the
\* 'stuck' log nor the 'Done and up-to-date' no-op.
C23_DeciderDue ==
    \A i \in CallsOf("decider") :
        calls[i].now # NoDate =>
            /\ cur.class = "Overdue"
            /\ Strptime(FirstValue(cur.attributes, "Update")) = cur.update_date
            /\ cur.update_date <= cur.now
            /\ cur.now <= calls[i].now
            /\ cur.update_date <= calls[i].now
            /\ DeciderAction(calls[i].status, cur.update_date, calls[i].now).branch
                 \notin {"stuck", "done_current"}

\* C23, the case: the asset was classified at the instant of its due date
\* and the decider read the clock a second later, for an open ticket and for
\* a closed one.
C23_Witness ==
    /\ \E i \in CallsOf("decider") :
         /\ calls[i].now > cur.now
         /\ cur.now = cur.update_date
         /\ calls[i].status = "To Do"
    /\ \E i \in CallsOf("decider") :
         /\ calls[i].now # NoDate
         /\ calls[i].status = "Done"

====
